---------------------------- MODULE Spec2Model ----------------------------
(***************************************************************************)
(* A model of httpie/httpie.py: the token classifier KeyValueType and the  *)
(* request-construction / response-rendering pipeline of main().           *)
(*                                                                         *)
(* Strings are sequences of one-character strings.  Python dictionaries    *)
(* are functions from keys to values.  Spec runs main() once, one action   *)
(* per block of statements; SpecKV applies KeyValueType to every bounded   *)
(* string and separator list.                                              *)
(***************************************************************************)
EXTENDS Integers, Sequences, FiniteSets, TLC

VARIABLES
    pc,             \* position of the control flow inside main()
    stdin_isatty,   \* main's parameter stdin_isatty
    stdout_isatty,  \* main's parameter stdout_isatty
    args,           \* the namespace returned by parser.parse_args
    do_prettify,    \* local do_prettify
    headers,        \* local headers (CaseInsensitiveDict) before the call
    data,           \* local data: a dict, or the text read from stdin
    idx,            \* number of args.items the merge loop has consumed
    stdin_reads,    \* contents returned by the calls of stdin.read()
    requests,       \* descriptors handed to requests.request, in call order
    result,         \* how requests.request ended, and what it carried
    status_line,    \* local status_line
    resp_headers,   \* local headers after line 177 (the response's block)
    body,           \* local body
    fmt_calls,      \* calls made on the pretty.PrettyHttp object, in order
    stdout,         \* writes to stdout, in order
    stderr,         \* writes to sys.stderr, in order
    exit_status,    \* <<>> while running, <<n>> once the process has status n
    outcome,        \* which statement ended the run
    files,          \* state of every handle argparse.FileType has opened
    log,            \* the collaborator steps taken so far, in order
    kv_string,      \* SpecKV: the string given to KeyValueType.__call__
    kv_separators,  \* SpecKV: self.separators
    kv_result       \* SpecKV: what the call returned or raised

vars == <<pc, stdin_isatty, stdout_isatty, args, do_prettify, headers, data,
          idx, stdin_reads, requests, result, status_line, resp_headers, body,
          fmt_calls, stdout, stderr, exit_status, outcome, files, log,
          kv_string, kv_separators, kv_result>>

main_vars == <<pc, stdin_isatty, stdout_isatty, args, do_prettify, headers,
               data, idx, stdin_reads, requests, result, status_line,
               resp_headers, body, fmt_calls, stdout, stderr, exit_status,
               outcome, files, log>>

kv_vars == <<kv_string, kv_separators, kv_result>>

----------------------------------------------------------------------------
(* Bounds of the model.                                                    *)

\* longest string given to KeyValueType in SpecKV
MaxLen == 5
\* longest separator list given to KeyValueType in SpecKV
MaxSeps == 2
\* most positional items on a command line
MaxItems == 2
\* most --file options on a command line
MaxFiles == 1

----------------------------------------------------------------------------
(* Module constants of httpie.py.                                          *)

SEP_COMMON == ":"
SEP_DATA == "="
TYPE_FORM ==
    <<"a", "p", "p", "l", "i", "c", "a", "t", "i", "o", "n", "/", "x", "-", "w", "w", "w", "-",
      "f", "o", "r", "m", "-", "u", "r", "l", "e", "n", "c", "o", "d", "e", "d", ";",
      " ", "c", "h", "a", "r", "s", "e", "t", "=", "u", "t", "f", "-", "8">>
TYPE_JSON ==
    <<"a", "p", "p", "l", "i", "c", "a", "t", "i", "o", "n", "/", "j", "s", "o", "n", ";",
      " ", "c", "h", "a", "r", "s", "e", "t", "=", "u", "t", "f", "-", "8">>
PRETTIFY_STDOUT_TTY_ONLY == "PRETTIFY_STDOUT_TTY_ONLY"
\* 'HTTPie/%s' % version, the version string left out
DEFAULT_UA == <<"H", "T", "T", "P", "i", "e", "/">>

Newline == "\n"

----------------------------------------------------------------------------
(* Strings.                                                                *)

Min(S) == CHOOSE x \in S : \A y \in S : x <= y

\* All sequences over alphabet A of length at most n.
StringsUpTo(A, n) == UNION {[1..k -> A] : k \in 0..n}

\* The upper-case letters and their lower-case forms.
Letters ==
    [A |-> "a", B |-> "b", C |-> "c", D |-> "d", E |-> "e", F |-> "f", G
     |-> "g", H |-> "h", I |-> "i", J |-> "j", K |-> "k", L |-> "l", M
     |-> "m", N |-> "n", O |-> "o", P |-> "p", Q |-> "q", R |-> "r", S
     |-> "s", T |-> "t", U |-> "u", V |-> "v", W |-> "w", X |-> "x", Y
     |-> "y", Z |-> "z"]

\* str.lower() on one character.
LowerChar(c) == IF c \in DOMAIN Letters THEN Letters[c] ELSE c

\* str.lower().
Lower(s) == [i \in DOMAIN s |-> LowerChar(s[i])]

\* str.find(sep) for a one-character sep: the 0-based index of the first
\* occurrence, -1 when there is none.
Find(string, sep) ==
    IF \E i \in DOMAIN string : string[i] = sep
    THEN Min({i \in DOMAIN string : string[i] = sep}) - 1
    ELSE -1

\* str.split(sep, 1) for a one-character sep that occurs in the string: the
\* scan stops at the first occurrence and the rest is kept whole.
RECURSIVE SplitOnce(_, _, _)
SplitOnce(head, rest, sep) ==
    IF rest = <<>> THEN <<head>>
    ELSE IF Head(rest) = sep THEN <<head, Tail(rest)>>
    ELSE SplitOnce(Append(head, Head(rest)), Tail(rest), sep)

----------------------------------------------------------------------------
(* KeyValueType.                                                           *)

KeyValue(key, value, sep) == [key |-> key, value |-> value, sep |-> sep]

\* What the caller of a type function sees when it raises
\* argparse.ArgumentTypeError.
ArgumentTypeError == [error |-> "ArgumentTypeError"]

\* dict((string.find(sep), sep) for sep in separators if string.find(sep) != -1)
\* built pair by pair: a later pair replaces an earlier one under the same key.
RECURSIVE FoundDict(_, _, _)
FoundDict(string, separators, found) ==
    IF separators = <<>> THEN found
    ELSE LET sep == Head(separators)
             p == Find(string, sep)
         IN FoundDict(string, Tail(separators),
                IF p # -1
                THEN [k \in DOMAIN found \cup {p} |->
                         IF k = p THEN sep ELSE found[k]]
                ELSE found)

\* A faulty classifier: the first listed separator that occurs wins,
\* wherever it is in the string.
KeyValueTypeFirstListed(separators, string) ==
    LET occurring == {i \in DOMAIN separators :
                          Find(string, separators[i]) # -1}
    IN IF occurring = {} THEN ArgumentTypeError
       ELSE LET sep == separators[Min(occurring)]
                parts == SplitOnce(<<>>, string, sep)
            IN KeyValue(parts[1], parts[2], sep)

\* KeyValueType(separators).__call__(string)
KeyValueType(separators, string) ==
    LET found == FoundDict(string, separators, <<>>)
    IN IF DOMAIN found = {} THEN ArgumentTypeError
       ELSE LET sep == found[Min(DOMAIN found)]
                parts == SplitOnce(<<>>, string, sep)
            IN KeyValue(parts[1], parts[2], sep)

----------------------------------------------------------------------------
(* Dictionaries.                                                           *)

\* {} : the dictionary with no keys.
EmptyDict == [k \in {} |-> <<>>]

\* d[k] = v on a dict.
DictSet(d, k, v) == [x \in DOMAIN d \cup {k} |-> IF x = k THEN v ELSE d[x]]

\* A CaseInsensitiveDict is the sequence of its (key, value) entries in
\* insertion order; keys compare by their lower-cased form.
CIIndex(h, k) ==
    LET lower_k == Lower(k)
    IN {i \in DOMAIN h : Lower(h[i].key) = lower_k}

\* A faulty lookup: keys compare letter for letter.
CIContainsExact(h, k) == \E i \in DOMAIN h : h[i].key = k

\* k in h
CIContains(h, k) == CIIndex(h, k) # {}

\* h[k]
CIGet(h, k) == h[Min(CIIndex(h, k))].value

\* h[k] = v : an entry under an equivalent key gets the new value, else the
\* entry is added.
CISet(h, k, v) ==
    IF CIContains(h, k)
    THEN [i \in DOMAIN h |->
             IF i \in CIIndex(h, k) THEN [key |-> h[i].key, value |-> v]
             ELSE h[i]]
    ELSE Append(h, [key |-> k, value |-> v])

UserAgent == <<"U", "s", "e", "r", "-", "A", "g", "e", "n", "t">>
ContentType == <<"C", "o", "n", "t", "e", "n", "t", "-", "T", "y", "p", "e">>

----------------------------------------------------------------------------
(* The local variable data: a dict until line 140 or 145 rebinds it to a   *)
(* string.                                                                 *)

DictData(d) == [kind |-> "dict", dict |-> d, str |-> <<>>]
StrData(s) == [kind |-> "str", dict |-> EmptyDict, str |-> s]

\* Python's truth value of data: a dict or a string is true when not empty.
Truthy(d) == IF d.kind = "dict" THEN DOMAIN d.dict # {} ELSE d.str # <<>>

Quoted(s) == <<"\"">> \o s \o <<"\"">>

\* The members of a JSON object, the keys in the dictionary's iteration
\* order (here: the order CHOOSE fixes).  The keys and values that reach it
\* hold no character that JSON escapes.
RECURSIVE DumpMembers(_, _)
DumpMembers(d, keys) ==
    IF keys = {} THEN <<>>
    ELSE LET k == CHOOSE x \in keys : TRUE
             rest == keys \ {k}
         IN Quoted(k) \o <<":", " ">> \o Quoted(d[k])
            \o (IF rest = {} THEN <<>> ELSE <<",", " ">>)
            \o DumpMembers(d, rest)

\* json.dumps(d) for a dict of strings.
JsonDumps(d) == <<"{">> \o DumpMembers(d, DOMAIN d) \o <<"}">>

----------------------------------------------------------------------------
(* Inputs of a run.                                                        *)

\* The raw items a command line is made of: two spellings of a Content-Type
\* header, one of them with '=' in its value, two data fields, one of them
\* with ':' in its value, and a string with no separator.
ItemPool ==
    { ContentType \o <<":", "t">>,
      Lower(ContentType) \o <<":", "u", "=", "v">>,
      <<"a", "=", "b", ":", "c">>,
      <<"n", "=", "j">>,
      <<"a", "b">> }

\* What a piped standard input holds.
StdinPool == { <<>>, <<"x">> }

\* The message an exception of the transport carries.
MessagePool == { <<>>, <<"e", "r", "r">> }

\* The header maps of a response: without and with a content type.
ResponseHeadersPool ==
    { <<>>, <<[key |-> ContentType, value |-> <<"t", "/", "j">>]>> }

\* response.content
ContentPool == { <<>>, <<"{", "}">> }

\* response.encoding: None, or a declared encoding.
None == <<>>
EncodingPool == { None, <<"u", "t", "f", "-", "8">> }

NoResult ==
    [kind |-> "none", message |-> <<>>, headers |-> <<>>, content |-> <<>>,
     encoding |-> None]

\* What requests.request can do: return a response, or raise.
TransportResults ==
    [kind : {"response"}, message : {<<>>}, headers : ResponseHeadersPool,
     content : ContentPool, encoding : EncodingPool]
    \cup
    [kind : {"KeyboardInterrupt", "SystemExit"}, message : {<<>>},
     headers : {<<>>}, content : {<<>>}, encoding : {None}]
    \cup
    [kind : {"Exception"}, message : MessagePool,
     headers : {<<>>}, content : {<<>>}, encoding : {None}]

NoArgs ==
    [json |-> FALSE, form |-> FALSE, traceback |-> FALSE,
     prettify |-> PRETTIFY_STDOUT_TTY_ONLY, print_body |-> TRUE,
     print_headers |-> TRUE, items |-> <<>>, file |-> <<>>]

\* A text value: the characters it was made from and the conversions applied
\* to them since, in order.
Text(base) == [base |-> base, via |-> <<>>]
Via(t, fn, arg) == [t EXCEPT !.via = Append(@, [fn |-> fn, arg |-> arg])]
NoText == Text(<<>>)

----------------------------------------------------------------------------
(* Exit statuses.                                                          *)

\* parser.error() ends the process through ArgumentParser.exit(2, ...).
ParserErrorStatus == 2
\* main() returns and the script ends.
SuccessStatus == 0
\* A faulty status: sys.exit() without an argument in the interrupt handler.
InterruptStatusDefault == SuccessStatus
\* sys.exit(1) in the handler of KeyboardInterrupt and SystemExit.
InterruptStatus == 1
\* sys.exit(1) in the handler of Exception.
FailureStatus == 1
\* An exception that leaves main() ends the interpreter with status 1.
UncaughtStatus == 1

Usage == <<"u", "s", "a", "g", "e">>
ErrorPrefix == <<"e", "r", "r", "o", "r", ":", " ">>
MixedMessage == ErrorPrefix \o <<"m", "i", "x", "e", "d">>
InvalidMessage == ErrorPrefix \o <<"i", "n", "v", "a", "l", "i", "d">>

\* ArgumentParser.error(message): usage and message to stderr.
ParserError(err, message) == err \o <<Usage, message>>

----------------------------------------------------------------------------
(* The run of main().                                                      *)

Init ==
    /\ pc = "parse"
    /\ stdin_isatty \in BOOLEAN
    /\ stdout_isatty \in BOOLEAN
    /\ args = NoArgs
    /\ do_prettify = FALSE
    /\ headers = <<>>
    /\ data = DictData(EmptyDict)
    /\ idx = 0
    /\ stdin_reads = <<>>
    /\ requests = <<>>
    /\ result = NoResult
    /\ status_line = NoText
    /\ resp_headers = NoText
    /\ body = NoText
    /\ fmt_calls = <<>>
    /\ stdout = <<>>
    /\ stderr = <<>>
    /\ exit_status = <<>>
    /\ outcome = "running"
    /\ files = <<>>
    /\ log = <<>>
    /\ kv_string = <<>>
    /\ kv_separators = <<>>
    /\ kv_result = [called |-> FALSE]

\* A faulty exit: the status is noted and the run goes on where it was.
ExitContinues(n, why) ==
    /\ pc' = pc
    /\ exit_status' = <<n>>
    /\ outcome' = why

\* The process ends with status n because of `why`: sys.exit(n), the exit of
\* parser.error(), an exception leaving main(), or main() returning.
Exit(n, why) ==
    /\ pc' = "exit"
    /\ exit_status' = <<n>>
    /\ outcome' = why

\* do_prettify, lines 123-124.
DoPrettify(a, tty) ==
    a.prettify = "True" \/ (a.prettify = PRETTIFY_STDOUT_TTY_ONLY /\ tty)

\* Lines 122-128.  args = parser.parse_args(...): every option and item is
\* converted by its type function; --json/--form, --pretty/--ugly and
\* --headers/--body are mutually exclusive groups.  A type function that
\* raises makes the parser call its own error(); the --file handles opened
\* before that stay open.  Then do_prettify, the seeded header map and the
\* empty data map.
ParseArgs ==
    /\ pc = "parse"
    /\ \E type \in {"json", "form", "none"},
          traceback \in BOOLEAN,
          prettify \in {"True", "False", PRETTIFY_STDOUT_TTY_ONLY},
          only \in {"headers", "body", "none"},
          raw \in StringsUpTo(ItemPool, MaxItems),
          nfiles \in 0..MaxFiles :
          LET items == [i \in DOMAIN raw |->
                           KeyValueType(<<SEP_COMMON, SEP_DATA>>, raw[i])]
              parsed == [json |-> type = "json",
                         form |-> type = "form",
                         traceback |-> traceback,
                         prettify |-> prettify,
                         print_body |-> only # "headers",
                         print_headers |-> only # "body",
                         items |-> items,
                         file |-> [i \in 1..nfiles |-> i]]
          IN IF \E i \in DOMAIN items : items[i] = ArgumentTypeError
             THEN /\ \E opened \in 0..nfiles :
                         files' = [i \in 1..opened |-> "open"]
                  /\ stderr' = ParserError(stderr, InvalidMessage)
                  /\ Exit(ParserErrorStatus, "parse_error")
                  /\ UNCHANGED <<args, do_prettify, headers>>
             ELSE /\ args' = parsed
                  /\ files' = [i \in 1..nfiles |-> "open"]
                  /\ do_prettify' = DoPrettify(parsed, stdout_isatty)
                  /\ headers' = CISet(<<>>, UserAgent, DEFAULT_UA)
                  /\ pc' = "merge"
                  /\ UNCHANGED <<stderr, exit_status, outcome>>
    /\ data' = DictData(EmptyDict)
    /\ idx' = 0
    /\ log' = Append(log, "parse")
    /\ UNCHANGED <<stdin_isatty, stdout_isatty, stdin_reads, requests, result,
                   status_line, resp_headers, body, fmt_calls, stdout,
                   kv_vars>>

\* A faulty guard: a data item with piped input is let through.
MixedBodySourceNever(item, tty) == FALSE

\* Lines 130-135: the item is a data item and stdin is not a terminal.
MixedBodySource(item, tty) == item.sep # SEP_COMMON /\ ~tty

\* One iteration of the loop of lines 129-137.
MergeItem ==
    /\ pc = "merge"
    /\ idx < Len(args.items)
    /\ LET item == args.items[idx + 1]
       IN IF item.sep = SEP_COMMON
          THEN /\ headers' = CISet(headers, item.key, item.value)
               /\ idx' = idx + 1
               /\ UNCHANGED <<pc, data, stderr, exit_status, outcome>>
          ELSE IF MixedBodySource(item, stdin_isatty)
          THEN /\ stderr' = ParserError(stderr, MixedMessage)
               /\ Exit(ParserErrorStatus, "mixed")
               /\ UNCHANGED <<headers, data, idx>>
          ELSE /\ data' = DictData(DictSet(data.dict, item.key, item.value))
               /\ idx' = idx + 1
               /\ UNCHANGED <<pc, headers, stderr, exit_status, outcome>>
    /\ log' = Append(log, "merge")
    /\ UNCHANGED <<stdin_isatty, stdout_isatty, args, do_prettify,
                   stdin_reads, requests, result, status_line, resp_headers,
                   body, fmt_calls, stdout, files, kv_vars>>

\* Lines 139-140, once the loop has run out of items.
ReadStdin ==
    /\ pc = "merge"
    /\ idx = Len(args.items)
    /\ IF ~stdin_isatty
       THEN \E content \in StdinPool :
               /\ data' = StrData(content)
               /\ stdin_reads' = Append(stdin_reads, content)
               /\ log' = Append(log, "stdin")
       ELSE UNCHANGED <<data, stdin_reads, log>>
    /\ pc' = "ctype"
    /\ UNCHANGED <<stdin_isatty, stdout_isatty, args, do_prettify, headers,
                   idx, requests, result, status_line, resp_headers, body,
                   fmt_calls, stdout, stderr, exit_status, outcome, files,
                   kv_vars>>

\* A faulty branch test: only --json selects the JSON branch.
JsonBranchFlagOnly(a, d) == a.json

\* Line 143: args.json or (not args.form and data).
JsonBranch(a, d) == a.json \/ (~a.form /\ Truthy(d))

\* A faulty guard: the lookup is case-sensitive.
AutoTypeAllowedExact(h) == ~CIContainsExact(h, ContentType)

\* 'Content-Type' not in headers, lines 146 and 148.
AutoTypeAllowed(h) == ~CIContains(h, ContentType)

\* A faulty guard: --json alone does not count.
JsonTypeWantedDataOnly(a, d) == Truthy(d)

\* Line 146, second conjunct: (data or args.json).
JsonTypeWanted(a, d) == Truthy(d) \/ a.json

\* Lines 143-149: the body's serialization and the automatic content type.
ContentTypeStep ==
    /\ pc = "ctype"
    /\ IF JsonBranch(args, data)
       THEN LET dumped == IF stdin_isatty
                          THEN StrData(JsonDumps(data.dict))
                          ELSE data
            IN /\ data' = dumped
               /\ headers' = IF AutoTypeAllowed(headers)
                                 /\ JsonTypeWanted(args, dumped)
                              THEN CISet(headers, ContentType, TYPE_JSON)
                              ELSE headers
       ELSE /\ headers' = IF AutoTypeAllowed(headers)
                          THEN CISet(headers, ContentType, TYPE_FORM)
                          ELSE headers
            /\ UNCHANGED data
    /\ pc' = "request"
    /\ UNCHANGED <<stdin_isatty, stdout_isatty, args, do_prettify, idx,
                   stdin_reads, requests, result, status_line, resp_headers,
                   body, fmt_calls, stdout, stderr, exit_status, outcome,
                   files, log, kv_vars>>

\* A faulty handler: --traceback is ignored.
ReraisesNever(a) == FALSE

\* Lines 169-170: with --traceback the exception is raised again.
Reraises(a) == a.traceback

\* Lines 152-172: the call of requests.request and its exception handlers.
\* No statement of main() closes the handles in args.file.
Request ==
    /\ pc = "request"
    /\ requests' = Append(requests,
                       [headers |-> headers, data |-> data,
                        files |-> args.file])
    /\ log' = Append(log, "transport")
    /\ \E r \in TransportResults :
          /\ result' = r
          /\ IF r.kind = "response"
             THEN /\ pc' = "render"
                  /\ UNCHANGED <<stderr, exit_status, outcome>>
             ELSE IF r.kind \in {"KeyboardInterrupt", "SystemExit"}
             THEN /\ stderr' = Append(stderr, <<Newline>>)
                  /\ Exit(InterruptStatus, "interrupt")
             ELSE IF Reraises(args)
             THEN /\ Exit(UncaughtStatus, "raised")
                  /\ UNCHANGED stderr
             ELSE /\ stderr' = Append(stderr, r.message \o <<Newline>>)
                  /\ Exit(FailureStatus, "failure")
    /\ UNCHANGED <<stdin_isatty, stdout_isatty, args, do_prettify, headers,
                   data, idx, stdin_reads, status_line, resp_headers, body,
                   fmt_calls, stdout, files, kv_vars>>

Latin1 == <<"I", "S", "O", "-", "8", "8", "5", "9", "-", "1">>
\* The bytes of the status line and of the header block of the response.
StatusBytes == <<"H", "T", "T", "P", "/", "1", ".", "1", " ", "2", "0", "0">>
HeaderBytes(r) == IF r.headers = <<>> THEN <<>> ELSE <<"h">>

\* Lines 175-184: the status line, the header block and the body as text.
Decoded(r) ==
    LET encoding == IF r.encoding # None THEN r.encoding ELSE Latin1
    IN [status_line |-> Text(StatusBytes),
        headers |-> Via(Text(HeaderBytes(r)), "decode", encoding),
        body |-> IF r.content # <<>>
                 THEN Via(Text(r.content), "decode", encoding)
                 ELSE Text(<<>>)]

\* PrettyHttp.headers(content) and PrettyHttp.body(content, content_type):
\* the formatter's result is the text with the rendering recorded on it.
PrettyHeaders(t) == Via(t, "headers", <<>>)
PrettyBody(t, content_type) == Via(t, "body", content_type)
\* str.strip() on the formatter's result.
Strip(t) == Via(t, "strip", <<>>)
\* unicode.encode('utf-8')
EncodeUtf8(t) == Via(t, "encode", <<"u", "t", "f", "-", "8">>)

\* A faulty test: the body is rendered although it will not be printed.
PrettifiesBodyUnprinted(a, r) == CIContains(r.headers, Lower(ContentType))

\* Line 191: args.print_body and 'content-type' in response.headers.
PrettifiesBody(a, r) ==
    a.print_body /\ CIContains(r.headers, Lower(ContentType))

\* Lines 186-192: the three texts after the prettify block, and the calls it
\* made on the formatter.
Prettified(a, r, prettify, t) ==
    IF prettify
    THEN [status_line |-> IF a.print_headers
                          THEN Strip(PrettyHeaders(t.status_line))
                          ELSE t.status_line,
          headers |-> IF a.print_headers THEN PrettyHeaders(t.headers)
                      ELSE t.headers,
          body |-> IF PrettifiesBody(a, r)
                   THEN PrettyBody(t.body,
                                   CIGet(r.headers, Lower(ContentType)))
                   ELSE t.body,
          calls |-> (IF a.print_headers THEN <<"headers", "headers">>
                     ELSE <<>>)
                    \o (IF PrettifiesBody(a, r) THEN <<"body">> ELSE <<>>)]
    ELSE [status_line |-> t.status_line, headers |-> t.headers,
          body |-> t.body, calls |-> <<>>]

\* Lines 194-201: the writes to stdout.
Written(a, t) ==
    (IF a.print_headers
     THEN <<t.status_line, Text(<<Newline>>), EncodeUtf8(t.headers),
            Text(<<Newline, Newline>>)>>
     ELSE <<>>)
    \o (IF a.print_body
        THEN <<EncodeUtf8(t.body), Text(<<Newline>>)>>
        ELSE <<>>)

\* Lines 175-201 and the return of main(): display the response.
Render ==
    /\ pc = "render"
    /\ LET t == Prettified(args, result, do_prettify, Decoded(result))
       IN /\ status_line' = t.status_line
          /\ resp_headers' = t.headers
          /\ body' = t.body
          /\ fmt_calls' = fmt_calls \o t.calls
          /\ stdout' = stdout \o Written(args, t)
    /\ log' = Append(log, "render")
    /\ Exit(SuccessStatus, "rendered")
    /\ UNCHANGED <<stdin_isatty, stdout_isatty, args, do_prettify, headers,
                   data, idx, stdin_reads, requests, result, stderr, files,
                   kv_vars>>

Next ==
    \/ ParseArgs
    \/ MergeItem
    \/ ReadStdin
    \/ ContentTypeStep
    \/ Request
    \/ Render

Spec == Init /\ [][Next]_vars

----------------------------------------------------------------------------
(* KeyValueType on its own.                                                *)

KVAlphabet == {"a", "b", SEP_COMMON, SEP_DATA}
KVSeparators == {SEP_COMMON, SEP_DATA, "@"}

InitKV ==
    /\ pc = "kv"
    /\ stdin_isatty = TRUE
    /\ stdout_isatty = TRUE
    /\ args = NoArgs
    /\ do_prettify = FALSE
    /\ headers = <<>>
    /\ data = DictData(EmptyDict)
    /\ idx = 0
    /\ stdin_reads = <<>>
    /\ requests = <<>>
    /\ result = NoResult
    /\ status_line = NoText
    /\ resp_headers = NoText
    /\ body = NoText
    /\ fmt_calls = <<>>
    /\ stdout = <<>>
    /\ stderr = <<>>
    /\ exit_status = <<>>
    /\ outcome = "running"
    /\ files = <<>>
    /\ log = <<>>
    /\ kv_string \in StringsUpTo(KVAlphabet, MaxLen)
    /\ kv_separators \in StringsUpTo(KVSeparators, MaxSeps)
    /\ kv_result = [called |-> FALSE]

\* KeyValueType(kv_separators)(kv_string)
KVCall ==
    /\ pc = "kv"
    /\ ~kv_result.called
    /\ kv_result' = [called |-> TRUE,
                     value |-> KeyValueType(kv_separators, kv_string)]
    /\ UNCHANGED <<main_vars, kv_string, kv_separators>>

NextKV == KVCall

SpecKV == InitKV /\ [][NextKV]_vars

----------------------------------------------------------------------------
(* Properties of main().                                                   *)

\* parse_args has returned a namespace.
Parsed == pc # "parse" /\ outcome # "parse_error"

Last(seq) == seq[Len(seq)]

DataItems == {i \in DOMAIN args.items : args.items[i].sep = SEP_DATA}
HeaderItems == {i \in DOMAIN args.items : args.items[i].sep = SEP_COMMON}

LowerContentType == Lower(ContentType)

\* The header items that name the content type, in any letter case.
UserContentTypeItems ==
    {i \in HeaderItems : Lower(args.items[i].key) = LowerContentType}

Max(S) == CHOOSE x \in S : \A y \in S : y <= x

\* The Data Map the data items describe: under each key, the value of the
\* last item with that key.
ItemsDataMap ==
    [k \in {args.items[i].key : i \in DataItems} |->
        args.items[Max({i \in DataItems : args.items[i].key = k})].value]

\* C1: when stdin is piped and some item is a data item (separator '='), the
\* run can only end in the mixed-body usage error, it keeps moving until it
\* has ended, and neither stdin has been read nor the transport called at any
\* point of it; with piped stdin and header items only, the run never ends in
\* that error.
C1_MixedBodyRejected ==
    (Parsed /\ ~stdin_isatty) =>
        IF DataItems # {}
        THEN /\ requests = <<>>
             /\ stdin_reads = <<>>
             /\ pc \in {"merge", "exit"}
             /\ pc # "exit" => ENABLED Next
             /\ pc = "exit" => /\ outcome = "mixed"
                               /\ stderr = <<Usage, MixedMessage>>
        ELSE outcome # "mixed"

\* A piped run was ended by the mixed-body error at a data item that came
\* after a header item whose value holds '='.
C1_Witness ==
    /\ outcome = "mixed"
    /\ ~stdin_isatty
    /\ idx = 1
    /\ args.items[1].sep = SEP_COMMON
    /\ \E k \in DOMAIN args.items[1].value : args.items[1].value[k] = SEP_DATA
    /\ args.items[2].sep = SEP_DATA

\* C2: when a header item names the content type, in any letter case, every
\* request handed to the transport carries exactly one content-type entry and
\* its value is the one the user gave (the last such item's), whatever
\* --json/--form, the data and the kind of stdin are.
C2_UserContentTypeKept ==
    (requests # <<>> /\ UserContentTypeItems # {}) =>
        \A n \in DOMAIN requests :
            /\ Cardinality(CIIndex(requests[n].headers, ContentType)) = 1
            /\ CIGet(requests[n].headers, ContentType)
                   = args.items[Max(UserContentTypeItems)].value

\* A request went out with the user's lower-case content-type header and
\* with data items on the command line.
C2_Witness ==
    /\ Len(requests) = 1
    /\ UserContentTypeItems # {}
    /\ args.items[Max(UserContentTypeItems)].key = Lower(ContentType)
    /\ DataItems # {}
    /\ CIGet(requests[1].headers, ContentType) = <<"u", "=", "v">>

\* The body has content: the Data Map has a key, or the piped text is not
\* empty.
BodySourceNonEmpty ==
    IF stdin_isatty THEN DataItems # {} ELSE stdin_reads # <<<<>>>>

\* The decision table of the content type and of the body's form, for a
\* request without a user-supplied content type.
C3_Table ==
    (requests # <<>> /\ UserContentTypeItems = {}) =>
        \A n \in DOMAIN requests :
            LET r == requests[n]
                json == args.json \/ (~args.form /\ BodySourceNonEmpty)
            IN /\ CIGet(r.headers, ContentType)
                      = (IF json THEN TYPE_JSON ELSE TYPE_FORM)
               /\ r.data = IF ~stdin_isatty THEN StrData(stdin_reads[1])
                           ELSE IF json THEN StrData(JsonDumps(ItemsDataMap))
                           ELSE DictData(ItemsDataMap)

\* C3 as stated: the decision table, and with --json and no items the body is
\* empty.
C3_AsStated ==
    /\ C3_Table
    /\ (requests # <<>> /\ args.json /\ args.items = <<>>) =>
           \A n \in DOMAIN requests :
               ~Truthy(requests[n].data)
               /\ CIGet(requests[n].headers, ContentType) = TYPE_JSON

\* C3: without a user-supplied content type the request's Content-Type is
\* TYPE_JSON exactly when --json is set or (--form is not set and the body
\* source is not empty), TYPE_FORM otherwise; a piped body is passed unchanged,
\* a Data Map is passed as its JSON text in the JSON case and unchanged in the
\* form case; with --json and no items the content type is TYPE_JSON and the
\* body is the piped text when stdin is piped and the two characters '{}'
\* when it is not.
C3_ContentTypeTable ==
    /\ C3_Table
    /\ (requests # <<>> /\ args.json /\ args.items = <<>>) =>
           \A n \in DOMAIN requests :
               /\ CIGet(requests[n].headers, ContentType) = TYPE_JSON
               /\ requests[n].data.kind = "str"
               /\ requests[n].data.str =
                      (IF stdin_isatty THEN <<"{", "}">> ELSE stdin_reads[1])

\* A request went out for --json with no items from a terminal: its body is
\* '{}'.
C3_Witness ==
    /\ Len(requests) = 1
    /\ args.json
    /\ args.items = <<>>
    /\ stdin_isatty
    /\ requests[1].data.str = <<"{", "}">>

\* C5 as stated: every handle opened for --file was opened before the
\* transport call, and once the process has ended every opened handle has
\* been closed.
C5_FileHandlesClosed ==
    /\ \A n \in DOMAIN requests :
           \A f \in DOMAIN requests[n].files :
               requests[n].files[f] \in DOMAIN files
    /\ pc = "exit" => \A f \in DOMAIN files : files[f] = "closed"

\* How often the formatter rendered a body.
BodyCalls == Cardinality({k \in DOMAIN fmt_calls : fmt_calls[k] = "body"})

\* The prettify mode resolved against the terminal.
PrettifyResolved ==
    args.prettify = "True"
    \/ (args.prettify = PRETTIFY_STDOUT_TTY_ONLY /\ stdout_isatty)

ResponseHasContentType ==
    \E k \in DOMAIN result.headers :
        Lower(result.headers[k].key) = LowerContentType

\* No rendering of the formatter is recorded on the text.
Unformatted(t) == \A k \in DOMAIN t.via : t.via[k].fn = "decode"

\* The prettify block of lines 186-192 is behind.
PastPrettify == outcome = "rendered"

\* C6: when the transport raises, nothing goes to stdout and nothing is
\* rendered; an interrupt (KeyboardInterrupt or SystemExit) writes exactly one
\* newline to stderr and ends with status 1, with or without --traceback; any
\* other exception without --traceback writes its message and a newline, as
\* one write, and ends with status 1; with --traceback it leaves main()
\* unhandled and main() writes nothing.
C6_TransportFailure ==
    result.kind \notin {"none", "response"} =>
        /\ pc = "exit"
        /\ stdout = <<>>
        /\ fmt_calls = <<>>
        /\ exit_status # <<>> /\ exit_status[1] # 0
        /\ result.kind \in {"KeyboardInterrupt", "SystemExit"} =>
               /\ stderr = << <<Newline>> >>
               /\ exit_status = <<1>>
               /\ outcome = "interrupt"
        /\ (result.kind = "Exception" /\ ~args.traceback) =>
               /\ stderr = << result.message \o <<Newline>> >>
               /\ exit_status = <<1>>
               /\ outcome = "failure"
        /\ (result.kind = "Exception" /\ args.traceback) =>
               /\ stderr = <<>>
               /\ outcome = "raised"

\* The transport was interrupted in a run with --traceback.
C6_Witness ==
    /\ result.kind = "KeyboardInterrupt"
    /\ args.traceback
    /\ stderr = << <<Newline>> >>

\* C7 as stated: with prettify resolved to true the body is rendered exactly
\* once when the response has a content-type header and never when it has
\* none, whatever printHeaders and printBody are.
C7_AsStated ==
    (PastPrettify /\ PrettifyResolved) =>
        BodyCalls = (IF ResponseHasContentType THEN 1 ELSE 0)

\* C7: with prettify resolved to true the formatter renders the body exactly
\* once when the response has a content-type header and the body is to be
\* printed, and never otherwise; with prettify resolved to false the
\* formatter is never called and status line, headers and body stay as
\* decoded.  Before the prettify block the formatter has not been called.
C7_BodyRenderedOnce ==
    /\ ~PastPrettify => fmt_calls = <<>>
    /\ (PastPrettify /\ PrettifyResolved) =>
           BodyCalls = (IF ResponseHasContentType /\ args.print_body
                        THEN 1 ELSE 0)
    /\ (PastPrettify /\ ~PrettifyResolved) =>
           /\ fmt_calls = <<>>
           /\ Unformatted(status_line)
           /\ Unformatted(resp_headers)
           /\ Unformatted(body)

\* A prettified headers-only rendering of a response with a content type:
\* the body was not rendered.
C7_Witness ==
    /\ outcome = "rendered"
    /\ PrettifyResolved
    /\ ResponseHasContentType
    /\ ~args.print_body
    /\ BodyCalls = 0

\* C8 as stated: status 0 for a rendered response, 1 for every request
\* failure, interrupt and mixed-body error; the parser's own non-zero status
\* only for errors inside parse_args.
C8_AsStated ==
    pc = "exit" =>
        /\ outcome = "rendered" => exit_status = <<0>>
        /\ outcome \in {"failure", "raised", "interrupt", "mixed"} =>
               exit_status = <<1>>
        /\ outcome = "parse_error" => exit_status[1] # 0

\* C8: the exit status is 0 when the response was rendered, 1 for every
\* request failure and every interrupt, and 2, the parser's own status, for
\* the mixed-body error as for the errors inside parse_args.
C8_ExitStatus ==
    /\ pc = "exit" <=> exit_status # <<>>
    /\ pc = "exit" =>
        /\ outcome = "rendered" => exit_status = <<0>> /\ stdout # <<>>
        /\ outcome \in {"failure", "raised", "interrupt"} =>
               exit_status = <<1>>
        /\ outcome \in {"mixed", "parse_error"} => exit_status = <<2>>
        /\ outcome \in {"rendered", "failure", "raised", "interrupt",
                        "mixed", "parse_error"}

\* The run ended in the mixed-body error.
C8_Witness ==
    /\ pc = "exit"
    /\ outcome = "mixed"
    /\ exit_status = <<2>>

\* The place of a step in the order of main().
Rank(step) ==
    CASE step = "parse" -> 1
      [] step = "merge" -> 2
      [] step = "stdin" -> 3
      [] step = "transport" -> 4
      [] step = "render" -> 5

Count(seq, x) == Cardinality({k \in DOMAIN seq : seq[k] = x})

\* C9: the transport is called at most once; the steps taken are in the order
\* parse, merge, stdin read, transport, render, each but the merge of an item
\* at most once, with stdin read exactly in the runs with piped stdin that
\* reach the transport; and a run ended by a usage error, a transport failure
\* or an interrupt has taken no step after the failing one: the failing step
\* is the last one and nothing was read, sent or rendered after it.
C9_OnceAndInOrder ==
    /\ Len(requests) <= 1
    /\ Len(requests) = Count(log, "transport")
    /\ Len(stdin_reads) = Count(log, "stdin")
    /\ \A i, j \in DOMAIN log : i < j => Rank(log[i]) <= Rank(log[j])
    /\ \A s \in {"parse", "stdin", "transport", "render"} : Count(log, s) <= 1
    /\ pc # "parse" => log # <<>> /\ log[1] = "parse"
    /\ Count(log, "stdin") = 1 => ~stdin_isatty
    /\ (Count(log, "transport") = 1 /\ ~stdin_isatty) => Count(log, "stdin") = 1
    /\ Count(log, "render") = 1 => result.kind = "response"
    /\ (stdout # <<>> \/ fmt_calls # <<>>) => Count(log, "render") = 1
    /\ outcome = "parse_error" => log = <<"parse">>
    /\ outcome = "mixed" => /\ Last(log) = "merge"
                            /\ stdin_reads = <<>>
                            /\ requests = <<>>
                            /\ stdout = <<>>
    /\ outcome \in {"failure", "raised", "interrupt"} =>
           /\ Last(log) = "transport"
           /\ stdout = <<>>
           /\ fmt_calls = <<>>
    /\ exit_status # <<>> => ~ENABLED Next

\* A piped run with one header item went through every step.
C9_Witness ==
    /\ outcome = "rendered"
    /\ log = <<"parse", "merge", "stdin", "transport", "render">>

\* C10: every request handed to the transport carries a Content-Type header.
C10_ContentTypeAlwaysSet ==
    \A n \in DOMAIN requests : CIContains(requests[n].headers, ContentType)

\* A request went out for --json with an empty piped body and no content type
\* from the user: the inner guard held through args.json alone.
C10_Witness ==
    /\ Len(requests) = 1
    /\ args.json
    /\ ~stdin_isatty
    /\ stdin_reads = << <<>> >>
    /\ UserContentTypeItems = {}
    /\ CIGet(requests[1].headers, ContentType) = TYPE_JSON

----------------------------------------------------------------------------
(* Properties of KeyValueType.                                             *)

\* The 1-based positions of kv_string that hold a candidate separator.
SeparatorPositions ==
    {i \in DOMAIN kv_string :
        \E j \in DOMAIN kv_separators : kv_separators[j] = kv_string[i]}

\* C4: the call raises when no candidate occurs in the string; otherwise sep
\* is the candidate at the earliest position p that holds one, key is the
\* string before p and value all of the string after p.
C4_EarliestSeparator ==
    kv_result.called =>
        IF SeparatorPositions = {}
        THEN kv_result.value = ArgumentTypeError
        ELSE LET p == Min(SeparatorPositions)
             IN kv_result.value =
                    KeyValue(SubSeq(kv_string, 1, p - 1),
                             SubSeq(kv_string, p + 1, Len(kv_string)),
                             kv_string[p])

\* 'a:b=b' classified with the candidates listed as '=' then ':'.
C4_Witness ==
    /\ kv_result.called
    /\ kv_string = <<"a", ":", "b", "=", "b">>
    /\ kv_separators = <<SEP_DATA, SEP_COMMON>>
    /\ kv_result.value = KeyValue(<<"a">>, <<"b", "=", "b">>, SEP_COMMON)

============================================================================
